---- MODULE Spec2Model ----
(***************************************************************************)
(* Identity/token lifecycle and idempotent coin ledger of the Chick        *)
(* backend: app/services/ledger.py, app/routers/auth_refresh.py,           *)
(* app/routers/auth_google.py, app/models/refresh_token.py, and the        *)
(* activity status of app/services/chicken_status.py.                      *)
(*                                                                         *)
(* Each HTTP request / service call runs in its own database session.      *)
(* A handler is cut into steps at its database round trips: the reads up   *)
(* to the first commit form one step, every commit is one step.  Steps of  *)
(* different requests interleave freely.                                   *)
(***************************************************************************)
EXTENDS Integers, Sequences, FiniteSets, Bags, TLC

VARIABLES
    ledger,     \* coins_ledger table: sequence of rows, row id = index
    inflight,   \* bag of add_ledger_entry calls between their lookup and their
                \* commit: [args, start], start = completed calls when it began
    lcalls,     \* history of completed add_ledger_entry calls, in completion order
    users,      \* users table: sequence of rows, row id = index
    rtable,     \* refresh_tokens table: sequence of rows, row id = index
    parent,     \* history: per refresh_tokens row, the id of the row whose rotation
                \* created it (0 for a row created by a login)
    clock,      \* datetime.utcnow()
    rflight,    \* bag of POST /refresh requests past their lookup
    rcalls,     \* history of answered POST /refresh requests
    gflight,    \* bag of POST /auth/google requests past their lookups
    gcalls,     \* history of answered POST /auth/google requests
    chicken     \* a call of calc_chicken_status: what its queries return, the
                \* instant of the call and, once it has returned, its result

\* lvars: what the login and refresh handlers leave alone;
\* avars: what the ledger service leaves alone
lvars == <<ledger, inflight, lcalls, chicken>>
avars == <<users, rtable, parent, clock, rflight, rcalls, gflight, gcalls, chicken>>
vars == <<ledger, inflight, lcalls, users, rtable, parent, clock, rflight, rcalls,
          gflight, gcalls, chicken>>

(***************************************************************************)
(* Bounds and input domains                                                *)
(***************************************************************************)
MaxCalls == 2                  \* add_ledger_entry calls started in one behaviour

LProcs == {1, 2}               \* concurrent callers of add_ledger_entry
UserIds == {1, 2}
Deltas == {10, 20}
Sources == {"checkin", "run"}
NoneInt == -1                  \* Python None in an int | None position
NoneStr == "None"              \* Python None in a str | None position
RefIds == {NoneInt, 5}
IdemKeys == {NoneStr, "k1", "k2"}

LedgerArgs ==
    [user_id : UserIds, delta : Deltas, source : Sources,
     ref_id : RefIds, idempotency_key : IdemKeys]

(***************************************************************************)
(* Helpers over sequences                                                  *)
(***************************************************************************)
RECURSIVE SumDelta(_)
SumDelta(rows) ==
    IF rows = <<>> THEN 0 ELSE Head(rows).delta + SumDelta(Tail(rows))

\* Query.first(): the first matching row in id order, or None (<<>>)
First(rows) == IF rows = <<>> THEN <<>> ELSE <<Head(rows)>>

(***************************************************************************)
(* app/services/ledger.py                                                  *)
(***************************************************************************)
\* Faulty variant of get_coins_balance: the user_id filter is dropped.
get_coins_balance_AllUsers(user_id) == SumDelta(ledger)

\* get_coins_balance: coalesce(sum(delta), 0) over the user's rows
get_coins_balance(user_id) ==
    LET Mine(r) == r.user_id = user_id
    IN  SumDelta(SelectSeq(ledger, Mine))

\* Python truthiness of idempotency_key: None and "" are falsy
Truthy(key) == key # NoneStr /\ key # ""

\* query by (user_id, idempotency_key)
QueryByKey(a) ==
    LET Match(r) == r.user_id = a.user_id /\ r.idempotency_key = a.idempotency_key
    IN  First(SelectSeq(ledger, Match))

\* query by (user_id, source, ref_id)
QueryByRef(a) ==
    LET Match(r) == /\ r.user_id = a.user_id
                    /\ r.source = a.source
                    /\ r.ref_id = a.ref_id
    IN  First(SelectSeq(ledger, Match))

\* Faulty variant of Exists: the (source, ref_id) lookup is never made.
Exists_KeyOnly(a) ==
    IF Truthy(a.idempotency_key) THEN QueryByKey(a) ELSE <<>>

\* Faulty variant of Exists: the key lookup matches any row of the account.
Exists_AnyKey(a) ==
    LET Mine(r) == r.user_id = a.user_id
        byKey == IF Truthy(a.idempotency_key) THEN First(SelectSeq(ledger, Mine))
                 ELSE <<>>
    IN  IF byKey = <<>> /\ a.ref_id # NoneInt THEN QueryByRef(a) ELSE byKey

\* Faulty variant of Exists: the (source, ref_id) lookup is also made for a
\* ref_id of None.
Exists_RefAlways(a) ==
    LET byKey == IF Truthy(a.idempotency_key) THEN QueryByKey(a) ELSE <<>>
    IN  IF byKey = <<>> THEN QueryByRef(a) ELSE byKey

\* lines 26-41: the value of `exists` after both lookups (<<>> is None)
Exists(a) ==
    LET byKey == IF Truthy(a.idempotency_key) THEN QueryByKey(a) ELSE <<>>
    IN  IF byKey = <<>> /\ a.ref_id # NoneInt THEN QueryByRef(a) ELSE byKey

\* the row built at lines 47-54
NewRow(a) ==
    [user_id |-> a.user_id, delta |-> a.delta, source |-> a.source,
     ref_id |-> a.ref_id, idempotency_key |-> a.idempotency_key]

\* Faulty variant of UniqueViolation: the table has no unique index.
UniqueViolation_None(row) == FALSE

\* Uniqueness constraints of coins_ledger (SQL unique indexes ignore NULLs):
\* (user_id, idempotency_key) and (user_id, source, ref_id).
UniqueViolation(row) ==
    \E i \in 1..Len(ledger) :
        /\ ledger[i].user_id = row.user_id
        /\ \/ /\ row.idempotency_key # NoneStr
              /\ ledger[i].idempotency_key = row.idempotency_key
           \/ /\ row.ref_id # NoneInt
              /\ ledger[i].source = row.source
              /\ ledger[i].ref_id = row.ref_id

CallsStarted == Len(lcalls) + BagCardinality(inflight)

\* the history record of a call that has returned (raised = TRUE: the call
\* ended in an exception and returned nothing)
Completed(c, res, exc, ins) ==
    [args |-> c.args, start |-> c.start, result |-> res, raised |-> exc,
     inserted |-> ins]

\* Faulty variant of AddLedgerEntryLookup: a retry is answered with the delta it asked
\* for instead of the stored one.
AddLedgerEntryLookup_Requested(a) ==
    LET c == [args |-> a, start |-> Len(lcalls)]
    IN  /\ CallsStarted < MaxCalls
        /\ BagCardinality(inflight) < Cardinality(LProcs)
        /\ UNCHANGED avars
        /\ IF Exists(a) # <<>>
           THEN /\ lcalls' = Append(lcalls, Completed(c, a.delta, FALSE, FALSE))
                /\ UNCHANGED <<ledger, inflight>>
           ELSE /\ inflight' = inflight (+) SetToBag({c})
                /\ UNCHANGED <<ledger, lcalls>>

\* add_ledger_entry, lines 26-45: both lookups; returns the stored delta of a
\* match, otherwise goes on to the insert.
AddLedgerEntryLookup(a) ==
    LET c == [args |-> a, start |-> Len(lcalls)]
    IN  /\ CallsStarted < MaxCalls
        /\ BagCardinality(inflight) < Cardinality(LProcs)
        /\ UNCHANGED avars
        /\ IF Exists(a) # <<>>
           THEN /\ lcalls' = Append(lcalls,
                        Completed(c, Exists(a)[1].delta, FALSE, FALSE))
                /\ UNCHANGED <<ledger, inflight>>
           ELSE /\ inflight' = inflight (+) SetToBag({c})
                /\ UNCHANGED <<ledger, lcalls>>

\* add_ledger_entry, lines 47-57: db.add(row); db.commit(); return delta.
\* A commit that violates a unique index raises out of the function.
AddLedgerEntryInsert(c) ==
    /\ BagIn(c, inflight)
    /\ inflight' = inflight (-) SetToBag({c})
    /\ UNCHANGED avars
    /\ IF UniqueViolation(NewRow(c.args))
       THEN /\ lcalls' = Append(lcalls, Completed(c, 0, TRUE, FALSE))
            /\ UNCHANGED ledger
       ELSE /\ ledger' = Append(ledger, NewRow(c.args))
            /\ lcalls' = Append(lcalls, Completed(c, c.args.delta, FALSE, TRUE))

LedgerInit ==
    /\ ledger = <<>>
    /\ inflight = EmptyBag
    /\ lcalls = <<>>

LedgerNext ==
    \/ \E a \in LedgerArgs : AddLedgerEntryLookup(a)
    \/ \E c \in BagToSet(inflight) : AddLedgerEntryInsert(c)

(***************************************************************************)
(* Refresh tokens: app/models/refresh_token.py, app/core/security          *)
(***************************************************************************)
MaxClock == 1                  \* ticks of the clock in one behaviour
MaxRequests == 5               \* HTTP requests in one behaviour

RProcs == {1, 2}               \* concurrent POST /refresh requests
GProcs == {1, 2}               \* concurrent POST /auth/google requests

\* refresh_token_expiry(): lifetime of a refresh token, in clock ticks
RefreshTTL == 1

\* A plaintext no token generator has returned.
Bogus == 0

\* generate_refresh_token(): a fresh high-entropy secret; the k-th secret
\* generated is k.
generate_refresh_token == Len(rtable) + 1

\* hash_refresh_token(): a fixed-length digest, taken to be collision free
hash_refresh_token(plain) == <<"sha256", plain>>

\* refresh_token_expiry(): (expires_at, expires_in) from the current time
refresh_token_expiry == [expires_at |-> clock + RefreshTTL, expires_in |-> RefreshTTL]

\* RefreshToken(user_id=..., token_hash=..., expires_at=..., revoked_at=None,
\* created_at=now, ...)
RefreshToken(user_id, token_hash, expires_at, created_at) ==
    [user_id |-> user_id, token_hash |-> token_hash, expires_at |-> expires_at,
     revoked_at |-> NoneInt, created_at |-> created_at]

\* Query.first() over the matching row ids, rows taken in id order: 0 is None
FirstId(ids) ==
    IF ids = {} THEN 0 ELSE CHOOSE i \in ids : \A k \in ids : i <= k

(***************************************************************************)
(* POST /refresh: app/routers/auth_refresh.py                              *)
(***************************************************************************)
InvalidRefreshToken == [status |-> 401, detail |-> "Invalid refresh token"]
UserNotFound == [status |-> 401, detail |-> "User not found"]
Ok == [status |-> 200, detail |-> ""]

\* Faulty variant of Rejected: an expired token is refused only after its expiry instant.
Rejected_After(old_rt, now) ==
    \/ old_rt = 0
    \/ rtable[old_rt].revoked_at # NoneInt
    \/ rtable[old_rt].expires_at < now

\* line 40: not old_rt or old_rt.revoked_at or old_rt.expires_at <= now
Rejected(old_rt, now) ==
    \/ old_rt = 0
    \/ rtable[old_rt].revoked_at # NoneInt
    \/ rtable[old_rt].expires_at <= now

\* History: what the table held for the presented plaintext when the request
\* looked it up.
Seen(plain, now) ==
    LET hit == {i \in 1..Len(rtable) : rtable[i].token_hash = hash_refresh_token(plain)}
    IN  [matched |-> hit # {},
         revoked |-> \E i \in hit : rtable[i].revoked_at # NoneInt,
         expired |-> \E i \in hit : rtable[i].expires_at <= now]

RefreshStarted == Len(rcalls) + BagCardinality(rflight)

\* requests received so far, answered or not
RequestsStarted ==
    Len(rcalls) + BagCardinality(rflight) + Len(gcalls) + BagCardinality(gflight)

\* the history record of an answered POST /refresh
Answered(c, out, new_plain) ==
    [token |-> c.token, now |-> c.now, seq |-> c.seq, start |-> c.start,
     seen |-> c.seen, status |-> out.status, detail |-> out.detail, refresh_token |-> new_plain]

\* refresh_token, lines 32-53: hash the presented value, look the record up,
\* refuse it or read its user.
RefreshLookup(plain) ==
    LET now == clock
        old_hash == hash_refresh_token(plain)
        old_rt == FirstId({i \in 1..Len(rtable) : rtable[i].token_hash = old_hash})
        c == [token |-> plain, now |-> now, seq |-> RefreshStarted,
              start |-> Len(rcalls), seen |-> Seen(plain, now)]
    IN  /\ RequestsStarted < MaxRequests
        /\ BagCardinality(rflight) < Cardinality(RProcs)
        /\ UNCHANGED <<users, rtable, parent, clock, gflight, gcalls>>
        /\ UNCHANGED lvars
        /\ IF Rejected(old_rt, now)
           THEN /\ rcalls' = Append(rcalls, Answered(c, InvalidRefreshToken, Bogus))
                /\ UNCHANGED rflight
           ELSE IF rtable[old_rt].user_id \notin 1..Len(users)
           THEN /\ rcalls' = Append(rcalls, Answered(c, UserNotFound, Bogus))
                /\ UNCHANGED rflight
           ELSE /\ rflight' = rflight (+) SetToBag({
                        [token |-> plain, now |-> now, seq |-> RefreshStarted,
                         start |-> Len(rcalls),
                         seen |-> Seen(plain, now), old_rt |-> old_rt,
                         user_id |-> rtable[old_rt].user_id,
                         is_guest |-> users[rtable[old_rt].user_id].status = "guest",
                         pc |-> "revoke"]})
                /\ UNCHANGED rcalls

\* Faulty variant of RefreshRevoke: the commit of revoked_at is lost.
RefreshRevoke_Lost(c) ==
    /\ BagIn(c, rflight)
    /\ c.pc = "revoke"
    /\ rflight' = (rflight (-) SetToBag({c})) (+) SetToBag({[c EXCEPT !.pc = "insert"]})
    /\ UNCHANGED <<users, rtable, parent, clock, rcalls, gflight, gcalls>>
    /\ UNCHANGED lvars

\* refresh_token, lines 55-57: old_rt.revoked_at = now; db.commit()
RefreshRevoke(c) ==
    /\ BagIn(c, rflight)
    /\ c.pc = "revoke"
    /\ rtable' = [rtable EXCEPT ![c.old_rt].revoked_at = c.now]
    /\ rflight' = (rflight (-) SetToBag({c})) (+) SetToBag({[c EXCEPT !.pc = "insert"]})
    /\ UNCHANGED <<users, parent, clock, rcalls, gflight, gcalls>>
    /\ UNCHANGED lvars

\* Faulty variant of RefreshInsert: the new record gets the id of the old
\* record where the id of its user belongs.
RefreshInsert_WrongOwner(c) ==
    LET new_rt_plain == generate_refresh_token
        new_rt == RefreshToken(c.old_rt, hash_refresh_token(new_rt_plain),
                               refresh_token_expiry.expires_at, c.now)
    IN  /\ BagIn(c, rflight)
        /\ c.pc = "insert"
        /\ rtable' = Append(rtable, new_rt)
        /\ parent' = Append(parent, c.old_rt)
        /\ rflight' = rflight (-) SetToBag({c})
        /\ rcalls' = Append(rcalls, Answered(c, Ok, new_rt_plain))
        /\ UNCHANGED <<users, clock, gflight, gcalls>>
        /\ UNCHANGED lvars

\* refresh_token, lines 59-87: generate the new secret, insert its record,
\* commit, sign the access token and answer.
RefreshInsert(c) ==
    LET new_rt_plain == generate_refresh_token
        new_rt == RefreshToken(c.user_id, hash_refresh_token(new_rt_plain),
                               refresh_token_expiry.expires_at, c.now)
    IN  /\ BagIn(c, rflight)
        /\ c.pc = "insert"
        /\ rtable' = Append(rtable, new_rt)
        /\ parent' = Append(parent, c.old_rt)
        /\ rflight' = rflight (-) SetToBag({c})
        /\ rcalls' = Append(rcalls, Answered(c, Ok, new_rt_plain))
        /\ UNCHANGED <<users, clock, gflight, gcalls>>
        /\ UNCHANGED lvars

\* time passes
Tick ==
    /\ clock < MaxClock
    /\ clock' = clock + 1
    /\ UNCHANGED <<users, rtable, parent, rflight, rcalls, gflight, gcalls>>
    /\ UNCHANGED lvars

(***************************************************************************)
(* POST /auth/google: app/routers/auth_google.py                           *)
(***************************************************************************)
\* What google_id_token.verify_oauth2_token makes of an id_token: it raises
\* (valid = FALSE) or returns the claims.  A claim that is absent is None;
\* email_verified is "True", "False" or absent.
Info(valid, sub, email, email_verified) ==
    [valid |-> valid, sub |-> sub, email |-> email, email_verified |-> email_verified]

\* id tokens and device ids presented to the login of the token model
AuthInfos == {Info(TRUE, "g1", "a@x.com", "True")}
AuthDevices == {NoneStr}

Unauthorized(detail) == [status |-> 401, detail |-> detail]
Conflict == [status |-> 409, detail |-> "Email already in use by another account"]
ServerError == [status |-> 500, detail |-> "Internal Server Error"]

\* Python truthiness of an optional string
Falsy(str) == str = NoneStr \/ str = ""

\* verify_google_token, lines 44-75: Ok, or the 401 it raises
verify_google_token(info) ==
    IF ~info.valid THEN Unauthorized("Invalid Google id_token")
    ELSE IF Falsy(info.email) THEN Unauthorized("Google token missing email")
    ELSE IF info.email_verified = "False" THEN Unauthorized("Google email not verified")
    ELSE IF Falsy(info.sub) THEN Unauthorized("Google token missing sub")
    ELSE Ok

\* str(info["email"]).lower().strip() on the addresses used here
Normalize(email) ==
    CASE email = " A@X.com" -> "a@x.com"
      [] email = "A@x.com" -> "a@x.com"
      [] email = "B@x.com" -> "b@x.com"
      [] OTHER -> email

\* User(status="user", auth_provider="google", google_sub=..., email=...,
\* device_id=..., created_at=now, last_login_at=now)
User(google_sub, email, device_id, now) ==
    [status |-> "user", auth_provider |-> "google", google_sub |-> google_sub,
     email |-> email, device_id |-> device_id, created_at |-> now,
     last_login_at |-> now]

\* Faulty variant of UpgradeCols: the upgraded guest keeps status "guest".
UpgradeCols_NoStatus == {"google_sub", "email", "auth_provider", "last_login_at"}

\* lines 109-113: the columns the upgrade of a guest assigns
UpgradeCols == {"google_sub", "email", "status", "auth_provider", "last_login_at"}

\* Faulty variant of EmailCollision: the owner of the email is not looked at.
EmailCollision_Never(email_owner, google_sub) == FALSE

\* line 103: email_owner and email_owner.google_sub != google_sub
EmailCollision(email_owner, google_sub) ==
    email_owner # 0 /\ users[email_owner].google_sub # google_sub

\* Faulty variant of LoginCols: the email is assigned on every login.
LoginCols_Email(user) == {"last_login_at", "email"}

\* lines 143-149: the columns a login of an existing account assigns
LoginCols(user) ==
    {"last_login_at"}
    \cup (IF Falsy(users[user].email) THEN {"email"} ELSE {})
    \cup (IF users[user].status # "user" THEN {"status"} ELSE {})
    \cup (IF users[user].auth_provider # "google" THEN {"auth_provider"} ELSE {})

\* lines 86-137 and 142-149: the row the session will flush at its commit,
\* or the 409.  kind "insert": a new row; kind "update": columns `cols` of row
\* `uid` take their values from `row`.
Resolve(google_sub, email, device_id, now) ==
    LET user == FirstId({i \in 1..Len(users) : users[i].google_sub = google_sub})
        guest == FirstId({i \in 1..Len(users) :
                            users[i].device_id = device_id /\ users[i].status = "guest"})
        new == User(google_sub, email, device_id, now)
    IN  IF user = 0
        THEN IF ~Falsy(device_id)
             THEN IF guest # 0
                  THEN LET email_owner ==
                               FirstId({i \in 1..Len(users) :
                                          users[i].email = email /\ i # guest})
                       IN  IF EmailCollision(email_owner, google_sub)
                           THEN [out |-> Conflict, kind |-> "none", uid |-> 0,
                                 row |-> new, cols |-> {}]
                           ELSE [out |-> Ok, kind |-> "update", uid |-> guest,
                                 row |-> new, cols |-> UpgradeCols]
                  ELSE [out |-> Ok, kind |-> "insert", uid |-> 0, row |-> new,
                        cols |-> {}]
             ELSE [out |-> Ok, kind |-> "insert", uid |-> 0,
                   row |-> User(google_sub, email, NoneStr, now), cols |-> {}]
        ELSE [out |-> Ok, kind |-> "update", uid |-> user, row |-> new,
              cols |-> LoginCols(user)]

\* Uniqueness constraint of users.google_sub (NULLs are not compared)
SubTaken(google_sub, uid) ==
    /\ google_sub # NoneStr
    /\ \E i \in 1..Len(users) : i # uid /\ users[i].google_sub = google_sub

\* the history record of an answered POST /auth/google.  History: `before`
\* is the users table the request read, `pre` and `post` the table just
\* before and just after its commit (equal when it committed nothing).
Responded(c, out, user_id, plain) ==
    [info |-> c.info, device_id |-> c.device_id, now |-> c.now,
     before |-> c.before, pre |-> c.pre, post |-> c.post,
     status |-> out.status, detail |-> out.detail, user_id |-> user_id,
     refresh_token |-> plain]

\* google_auth, lines 80-137 and 142-149: verify the id_token, look up the
\* account by sub, the guest by device_id and the owner of the email, and
\* stage the insert or update.
GoogleAuthLookup(info, device_id) ==
    LET now == clock
        v == verify_google_token(info)
        google_sub == info.sub
        email == Normalize(info.email)
        r == Resolve(google_sub, email, device_id, now)
        c == [info |-> info, device_id |-> device_id, now |-> now,
              before |-> users, pre |-> users, post |-> users]
    IN  /\ RequestsStarted < MaxRequests
        /\ BagCardinality(gflight) < Cardinality(GProcs)
        /\ UNCHANGED <<users, rtable, parent, clock, rflight, rcalls>>
        /\ UNCHANGED lvars
        /\ IF v # Ok
           THEN /\ gcalls' = Append(gcalls, Responded(c, v, 0, Bogus))
                /\ UNCHANGED gflight
           ELSE IF r.out # Ok
           THEN /\ gcalls' = Append(gcalls, Responded(c, r.out, 0, Bogus))
                /\ UNCHANGED gflight
           ELSE /\ gflight' = gflight (+) SetToBag({
                        [info |-> info, device_id |-> device_id, now |-> now,
                         before |-> users, pre |-> users, post |-> users,
                         kind |-> r.kind, uid |-> r.uid, row |-> r.row,
                         cols |-> r.cols, pc |-> "commit"]})
                /\ UNCHANGED gcalls

\* google_auth, lines 139-140 and 150-151: db.commit(); db.refresh(user).
\* A commit that violates the unique index on google_sub raises out of the
\* handler.
GoogleAuthCommit(c) ==
    LET uid == IF c.kind = "insert" THEN Len(users) + 1 ELSE c.uid
        old == users[c.uid]
        upd == [f \in DOMAIN c.row |-> IF f \in c.cols THEN c.row[f] ELSE old[f]]
        clash == IF c.kind = "insert" THEN SubTaken(c.row.google_sub, 0)
                 ELSE "google_sub" \in c.cols /\ SubTaken(c.row.google_sub, c.uid)
    IN  /\ BagIn(c, gflight)
        /\ c.pc = "commit"
        /\ UNCHANGED <<rtable, parent, clock, rflight, rcalls>>
        /\ UNCHANGED lvars
        /\ IF clash
           THEN /\ gflight' = gflight (-) SetToBag({c})
                /\ gcalls' = Append(gcalls,
                        Responded([c EXCEPT !.pre = users, !.post = users],
                                  ServerError, 0, Bogus))
                /\ UNCHANGED users
           ELSE /\ users' = IF c.kind = "insert" THEN Append(users, c.row)
                            ELSE [users EXCEPT ![c.uid] = upd]
                /\ gflight' = (gflight (-) SetToBag({c}))
                              (+) SetToBag({[c EXCEPT !.pc = "issue", !.uid = uid,
                                                      !.pre = users, !.post = users']})
                /\ UNCHANGED gcalls

\* google_auth, lines 153-183: sign the access token, generate the refresh
\* token, insert its record, commit and answer.
GoogleAuthIssue(c) ==
    LET rt_plain == generate_refresh_token
        rt_row == RefreshToken(c.uid, hash_refresh_token(rt_plain),
                               refresh_token_expiry.expires_at, c.now)
    IN  /\ BagIn(c, gflight)
        /\ c.pc = "issue"
        /\ rtable' = Append(rtable, rt_row)
        /\ parent' = Append(parent, 0)
        /\ gflight' = gflight (-) SetToBag({c})
        /\ gcalls' = Append(gcalls, Responded(c, Ok, c.uid, rt_plain))
        /\ UNCHANGED <<users, clock, rflight, rcalls>>
        /\ UNCHANGED lvars

AuthInit ==
    /\ users = <<>>
    /\ rtable = <<>>
    /\ parent = <<>>
    /\ clock = 0
    /\ rflight = EmptyBag
    /\ rcalls = <<>>
    /\ gflight = EmptyBag
    /\ gcalls = <<>>

\* calc_chicken_status is not being called
ChickenIdle == chicken = [pc |-> "idle"]

Init == LedgerInit /\ AuthInit /\ ChickenIdle

\* the ledger service on its own
LedgerSpec == Init /\ [][LedgerNext]_vars

\* the presented refresh tokens: every secret issued so far, and a wrong one
Presented == 0..Len(rtable)

AuthNext ==
    \/ gflight = EmptyBag
       /\ \E info \in AuthInfos, d \in AuthDevices : GoogleAuthLookup(info, d)
    \/ \E c \in BagToSet(gflight) : GoogleAuthCommit(c)
    \/ \E c \in BagToSet(gflight) : GoogleAuthIssue(c)
    \/ \E plain \in Presented : RefreshLookup(plain)
    \/ \E c \in BagToSet(rflight) : RefreshRevoke(c)
    \/ \E c \in BagToSet(rflight) : RefreshInsert(c)
    \/ Tick

\* login and token rotation
AuthSpec == Init /\ [][AuthNext]_vars

\* two Google identities, for the ownership of refresh tokens
OwnerInfos == {Info(TRUE, "g1", "a@x.com", "True"), Info(TRUE, "g2", "b@x.com", "True")}

OwnerNext ==
    \/ gflight = EmptyBag
       /\ \E info \in OwnerInfos, d \in AuthDevices : GoogleAuthLookup(info, d)
    \/ \E c \in BagToSet(gflight) : GoogleAuthCommit(c)
    \/ \E c \in BagToSet(gflight) : GoogleAuthIssue(c)
    \/ \E plain \in Presented : RefreshLookup(plain)
    \/ \E c \in BagToSet(rflight) : RefreshRevoke(c)
    \/ \E c \in BagToSet(rflight) : RefreshInsert(c)

\* logins of two accounts and rotations of their tokens, at one instant
OwnerSpec == Init /\ [][OwnerNext]_vars

(***************************************************************************)
(* Binding Google identities to accounts: POST /auth/google on a users    *)
(* table that holds a guest                                                *)
(***************************************************************************)
MaxBinds == 2                  \* POST /auth/google requests started in one behaviour

\* A guest account as the guest login leaves it: bound to a device, without
\* google_sub and email.
Guest(device_id) ==
    [status |-> "guest", auth_provider |-> "guest", google_sub |-> NoneStr,
     email |-> NoneStr, device_id |-> device_id, created_at |-> 0,
     last_login_at |-> 0]

\* id tokens presented to the binding: two identities that claim the same
\* address, a token of the first identity with another address, in upper
\* case and without email_verified claim, and the tokens verify_google_token
\* has to refuse
BindInfos ==
    {Info(TRUE, "g1", "a@x.com", "True"),
     Info(TRUE, "g2", "a@x.com", "True"),
     Info(TRUE, "g1", "B@x.com", NoneStr),
     Info(FALSE, "g1", "a@x.com", "True"),
     Info(TRUE, "g1", NoneStr, "True"),
     Info(TRUE, "g1", "", "True"),
     Info(TRUE, "g1", "a@x.com", "False"),
     Info(TRUE, NoneStr, "a@x.com", "True"),
     Info(TRUE, "", "a@x.com", "True")}

\* payload.device_id: absent, or the device of the guest
BindDevices == {NoneStr, "dev-1"}

BindInit ==
    /\ users = <<Guest("dev-1")>>
    /\ rtable = <<>>
    /\ parent = <<>>
    /\ clock = 0
    /\ rflight = EmptyBag
    /\ rcalls = <<>>
    /\ gflight = EmptyBag
    /\ gcalls = <<>>

BindsStarted == Len(gcalls) + BagCardinality(gflight)

BindNext ==
    \/ BindsStarted < MaxBinds
       /\ \E info \in BindInfos, d \in BindDevices : GoogleAuthLookup(info, d)
    \/ \E c \in BagToSet(gflight) : GoogleAuthCommit(c)
    \/ \E c \in BagToSet(gflight) : GoogleAuthIssue(c)
    \/ Tick

BInit == LedgerInit /\ BindInit /\ ChickenIdle

\* concurrent logins against a table with a guest account
BindSpec == BInit /\ [][BindNext]_vars

(***************************************************************************)
(* Activity status: app/services/chicken_status.py                         *)
(***************************************************************************)
MaxTime == 13                  \* instants, in half days
MaxCount == 3                  \* check-ins, and runs, counted in the week

WEAK_AFTER_DAYS == 4
STRONG_WEEKLY_COUNT == 3

\* datetime.date() of an instant counted in half days
Date(t) == t \div 2

Max(a, b) == IF a >= b THEN a ELSE b

\* get_last_activity_at, lines 82-110: the later of the last valid check-in
\* and the last awarded run, None if there is neither
get_last_activity_at(last_checkin, last_run) ==
    IF last_checkin = NoneInt THEN last_run
    ELSE IF last_run = NoneInt THEN last_checkin
    ELSE Max(last_checkin, last_run)

\* get_weekly_activity_count, lines 39-71
get_weekly_activity_count(checkin_count, run_count) == checkin_count + run_count

\* calc_chicken_status, lines 113-136, on what its queries return
calc_chicken_status(q) ==
    LET last_activity_at == get_last_activity_at(q.last_checkin, q.last_run)
        days_since == Date(q.now) - Date(last_activity_at)
        weekly_count == get_weekly_activity_count(q.checkin_count, q.run_count)
    IN  IF last_activity_at = NoneInt THEN "normal"
        ELSE IF days_since >= WEAK_AFTER_DAYS THEN "weak"
        ELSE IF weekly_count >= STRONG_WEEKLY_COUNT THEN "strong"
        ELSE "normal"

\* the activity of a user as the queries see it at instant `now`
Activity ==
    {q \in [last_checkin : {NoneInt} \cup 0..MaxTime,
            last_run : {NoneInt} \cup 0..MaxTime,
            checkin_count : 0..MaxCount, run_count : 0..MaxCount,
            now : {MaxTime - 1, MaxTime}] :
        q.last_checkin <= q.now /\ q.last_run <= q.now}

StatusInit == \E q \in Activity : chicken = [pc |-> "call", q |-> q]

CalcChickenStatus ==
    /\ chicken.pc = "call"
    /\ chicken' = [pc |-> "done", q |-> chicken.q,
                   status |-> calc_chicken_status(chicken.q)]
    /\ UNCHANGED <<ledger, inflight, lcalls, users, rtable, parent, clock, rflight,
                   rcalls, gflight, gcalls>>

SInit == LedgerInit /\ AuthInit /\ StatusInit

StatusNext == CalcChickenStatus

\* one call of calc_chicken_status on every activity within the bounds
StatusSpec == SInit /\ [][StatusNext]_vars

(***************************************************************************)
(* Refresh token claims                                                    *)
(***************************************************************************)
RIdx == 1..Len(rcalls)
TIdx == 1..Len(rtable)

\* Request j looked its token up after request i had been answered.
RAfter(i, j) == i < j /\ rcalls[j].start >= i

\* The row that stores the hash of a plaintext (0: none).
RowOf(plain) ==
    FirstId({i \in 1..Len(rtable) : rtable[i].token_hash = hash_refresh_token(plain)})

\* C1: of two concurrent POST /refresh presenting the same plaintext exactly
\* one gets a new token pair and the other gets 401; one presented token never
\* yields two replacement records.
C1_RotationExclusive ==
    /\ \A i, j \in RIdx :
          (i < j /\ rcalls[j].start < i /\ rcalls[i].token = rcalls[j].token)
          => ~(rcalls[i].status = 200 /\ rcalls[j].status = 200)
    /\ \A a, b \in TIdx : (a # b /\ parent[a] # 0) => parent[a] # parent[b]

\* No other request presenting the token of request j looked it up before j.
FirstOn(j) ==
    /\ \A i \in RIdx :
          (i # j /\ rcalls[i].token = rcalls[j].token) => rcalls[i].seq > rcalls[j].seq
    /\ \A c \in BagToSet(rflight) :
          c.token = rcalls[j].token => c.seq > rcalls[j].seq

\* C2: the first rotate on an issued, unexpired plaintext succeeds; every
\* rotate on that plaintext made after a successful one fails with
\* InvalidCredential, whatever logins and rotations happen in between.
C2_RotateOnce ==
    /\ \A j \in RIdx :
          ( /\ RowOf(rcalls[j].token) # 0
            /\ rtable[RowOf(rcalls[j].token)].expires_at > rcalls[j].now
            /\ FirstOn(j) )
          => /\ rcalls[j].status = 200
             /\ RowOf(rcalls[j].refresh_token) # 0
             /\ rcalls[j].refresh_token # rcalls[j].token
    /\ \A i, j \in RIdx :
          ( /\ RAfter(i, j)
            /\ rcalls[i].token = rcalls[j].token
            /\ rcalls[i].status = 200 )
          => /\ rcalls[j].status = 401
             /\ rcalls[j].detail = "Invalid refresh token"
             /\ rcalls[j].refresh_token = Bogus

\* A token was rotated, then a login issued a token, then another token was
\* rotated, and then the first token was presented again.
C2_Witness ==
    \E i, k, j \in RIdx :
        /\ RAfter(i, k) /\ RAfter(k, j)
        /\ rcalls[i].status = 200
        /\ rcalls[k].status = 200
        /\ rcalls[k].token # rcalls[i].token
        /\ rcalls[j].token = rcalls[i].token
        /\ rcalls[j].status = 401
        /\ \E r \in TIdx :
              /\ parent[r] = 0
              /\ RowOf(rcalls[i].refresh_token) < r
              /\ r < RowOf(rcalls[k].refresh_token)

\* C3: no committed state holds a record revoked by rotation without a
\* replacement record of the same account.
C3_RevokedHasReplacement ==
    \A r \in TIdx :
        rtable[r].revoked_at # NoneInt
        => \E k \in TIdx : parent[k] = r /\ rtable[k].user_id = rtable[r].user_id

\* C4, outcome: a presented value that matches no record, or whose record is
\* revoked, or whose record has expires_at <= now, gets the one answer
\* 401 "Invalid refresh token" and no token, and only such a value gets it.
C4_Outcome ==
    \A j \in RIdx :
        LET bad == \/ ~rcalls[j].seen.matched
                   \/ rcalls[j].seen.revoked
                   \/ rcalls[j].seen.expired
        IN  /\ bad => /\ rcalls[j].status = 401
                      /\ rcalls[j].detail = "Invalid refresh token"
                      /\ rcalls[j].refresh_token = Bogus
            /\ ~bad => rcalls[j].status = 200

\* C4, frame: the step that answers 401 creates and modifies no record.
C4_Frame ==
    (Len(rcalls') = Len(rcalls) + 1 /\ rcalls'[Len(rcalls')].status = 401)
    => rtable' = rtable /\ parent' = parent /\ users' = users

\* C4: rotate fails alike for an unknown, a revoked and an expired token
\* (expired from expires_at = now on) and then changes no record.
C4_InvalidCredential == []C4_Outcome /\ [][C4_Frame]_vars

\* The three refusals have all happened, the expired one at expires_at = now.
C4_Witness ==
    \E a, b, c \in RIdx :
        /\ ~rcalls[a].seen.matched
        /\ rcalls[b].seen.matched /\ rcalls[b].seen.revoked /\ ~rcalls[b].seen.expired
        /\ rcalls[c].seen.matched /\ ~rcalls[c].seen.revoked /\ rcalls[c].seen.expired
        /\ rtable[RowOf(rcalls[c].token)].expires_at = rcalls[c].now
        /\ \A j \in {a, b, c} : rcalls[j].status = 401

(***************************************************************************)
(* Ledger claims                                                           *)
(***************************************************************************)
CallIdx == 1..Len(lcalls)
RowIdx == 1..Len(ledger)

SameKey(x, y) ==
    /\ x.user_id = y.user_id
    /\ x.idempotency_key # NoneStr
    /\ x.idempotency_key = y.idempotency_key

SameRef(x, y) ==
    /\ x.user_id = y.user_id
    /\ x.ref_id # NoneInt
    /\ x.source = y.source
    /\ x.ref_id = y.ref_id

C6_LoserReturnsWinnerDelta ==
    \A i, j \in CallIdx :
        ( /\ i < j
          /\ lcalls[j].start < i
          /\ lcalls[i].inserted
          /\ SameKey(lcalls[i].args, lcalls[j].args)
             \/ SameRef(lcalls[i].args, lcalls[j].args) )
        => /\ ~lcalls[j].raised
           /\ ~lcalls[j].inserted
           /\ lcalls[j].result = lcalls[i].args.delta

\* Call j began after call i had returned.
After(i, j) == i < j /\ lcalls[j].start >= i

\* C7: record(account, delta, source, ref_id) with a non-null ref_id, called
\* twice in sequence, returns delta both times and leaves exactly one row for
\* (account, source, ref_id).
C7_TwiceSameRef ==
    \A i, j \in CallIdx :
        ( /\ After(i, j)
          /\ lcalls[i].args = lcalls[j].args
          /\ lcalls[i].args.idempotency_key = NoneStr
          /\ lcalls[i].args.ref_id # NoneInt
          /\ lcalls[i].inserted )
        => /\ ~lcalls[i].raised /\ ~lcalls[j].raised
           /\ lcalls[i].result = lcalls[i].args.delta
           /\ lcalls[j].result = lcalls[j].args.delta
           /\ ~lcalls[j].inserted
           /\ Cardinality({r \in RowIdx : SameRef(ledger[r], lcalls[i].args)}) = 1

C7_Witness ==
    \E i, j \in CallIdx :
        /\ After(i, j)
        /\ lcalls[i].args = lcalls[j].args
        /\ lcalls[i].args.idempotency_key = NoneStr
        /\ lcalls[i].args.ref_id # NoneInt
        /\ lcalls[i].inserted
        /\ lcalls[j].result = lcalls[j].args.delta

TwoKeys(i, j) ==
    /\ i # j
    /\ lcalls[i].args.user_id = lcalls[j].args.user_id
    /\ lcalls[i].args.idempotency_key # NoneStr
    /\ lcalls[j].args.idempotency_key # NoneStr
    /\ lcalls[i].args.idempotency_key # lcalls[j].args.idempotency_key

Shadowed(j) ==
    \E i \in CallIdx :
        /\ i < j
        /\ lcalls[i].inserted
        /\ SameKey(lcalls[j].args, lcalls[i].args)
           \/ SameRef(lcalls[j].args, lcalls[i].args)

RECURSIVE InsertedRows(_)
InsertedRows(cs) ==
    IF cs = <<>> THEN <<>>
    ELSE IF Head(cs).inserted
         THEN <<NewRow(Head(cs).args)>> \o InsertedRows(Tail(cs))
         ELSE InsertedRows(Tail(cs))

\* A call that returned without inserting: its lookup found a row.
Hit(j) == ~lcalls[j].inserted /\ ~lcalls[j].raised

\* The ledger as it was when call j returned: rows are only ever appended.
RowsAt(j) == InsertedRows(SubSeq(lcalls, 1, j - 1))

\* C9: a call that finds a matching row returns that row's stored delta (the
\* row with its key if there is one, else the row with its source and
\* ref_id), not the delta it asked for, and the ledger holds exactly the rows
\* inserted by the calls that found no match.
C9_HitReturnsStoredDelta ==
    /\ ledger = InsertedRows(lcalls)
    /\ \A j \in CallIdx :
          Hit(j) =>
            LET a == lcalls[j].args
                rows == RowsAt(j)
                byKey == {r \in 1..Len(rows) : SameKey(a, rows[r])}
                byRef == {r \in 1..Len(rows) : SameRef(a, rows[r])}
                found == IF byKey # {} THEN byKey ELSE byRef
            IN  /\ found # {}
                /\ \A r \in found : lcalls[j].result = rows[r].delta

\* A retry that asked for a delta other than the stored one has returned.
C9_Witness ==
    \E j \in CallIdx :
        /\ Hit(j)
        /\ lcalls[j].result # lcalls[j].args.delta
        /\ Len(ledger) = 1

RECURSIVE SumReturned(_, _)
SumReturned(cs, user_id) ==
    IF cs = <<>> THEN 0
    ELSE (IF Head(cs).inserted /\ Head(cs).args.user_id = user_id
          THEN Head(cs).result ELSE 0) + SumReturned(Tail(cs), user_id)

\* C10: get_coins_balance(account) is the sum of the deltas returned by the
\* account's calls that inserted (the first call of each dedup key), 0 for an
\* account without rows; retried calls do not change it.
C10_BalanceIsSumOfFirstCalls ==
    \A u \in UserIds :
        /\ get_coins_balance(u) = SumReturned(lcalls, u)
        /\ (\A r \in RowIdx : ledger[r].user_id # u) => get_coins_balance(u) = 0

\* An award has been retried with another delta; the balance is the first
\* call's delta.
C10_Witness ==
    \E i, j \in CallIdx :
        /\ After(i, j)
        /\ lcalls[i].inserted
        /\ Hit(j)
        /\ lcalls[j].args.delta # lcalls[i].args.delta
        /\ get_coins_balance(lcalls[j].args.user_id) = lcalls[i].args.delta

(***************************************************************************)
(* Account binding claims                                                  *)
(***************************************************************************)
GIdx == 1..Len(gcalls)
UIdx == 1..Len(users)

\* the accounts of table `t` that carry google_sub `sub`
WithSub(t, sub) == {i \in 1..Len(t) : t[i].google_sub = sub}

\* login k read a table without its sub and found the sub taken by somebody
\* else's commit when it came to commit itself
C11_Lost(k) ==
    /\ verify_google_token(gcalls[k].info) = Ok
    /\ WithSub(gcalls[k].before, gcalls[k].info.sub) = {}
    /\ WithSub(gcalls[k].pre, gcalls[k].info.sub) # {}
    /\ gcalls[k].status # 200

\* C11: no two accounts share a non-null google_sub, and of two concurrent
\* logins with the same sub the one that loses the creation is answered with
\* a conflict (409), never with a second account or an unhandled failure.
C11_SubUniqueLoserConflict ==
    /\ \A i, j \in UIdx :
          i # j /\ users[i].google_sub # NoneStr
              => users[i].google_sub # users[j].google_sub
    /\ \A k \in GIdx : C11_Lost(k) => gcalls[k].status = 409

\* the guest account of table `t` bound to `device_id`, 0 if there is none
GuestOf(t, device_id) ==
    FirstId({i \in 1..Len(t) : t[i].device_id = device_id /\ t[i].status = "guest"})

\* the accounts of table `t` other than `g` that own `email`
EmailOwners(t, email, g) == {i \in 1..Len(t) : t[i].email = email /\ i # g}

\* login k carried verified claims and a device_id matching a guest of the
\* table it read, in which nobody had its sub
GuestCase(k) ==
    /\ verify_google_token(gcalls[k].info) = Ok
    /\ WithSub(gcalls[k].before, gcalls[k].info.sub) = {}
    /\ ~Falsy(gcalls[k].device_id)
    /\ GuestOf(gcalls[k].before, gcalls[k].device_id) # 0

\* row `row` after an upgrade with the claims of login k
Upgraded(row, k) ==
    [row EXCEPT !.status = "user", !.auth_provider = "google",
                !.google_sub = gcalls[k].info.sub,
                !.email = Normalize(gcalls[k].info.email),
                !.last_login_at = gcalls[k].now]

\* C12: a login whose sub no account has and whose device_id matches a
\* guest, with no other account owning the email, is answered 200 with the
\* guest's id; its commit turns that row into a Google user with the sub and
\* the email of the claims, adds no row and leaves the other rows alone.
\* (A login that finds its sub taken by another account at commit time is
\* the case of C11.)
C12_GuestUpgradedInPlace ==
    \A k \in GIdx :
        LET e == gcalls[k]
            g == GuestOf(e.before, e.device_id)
        IN  /\ GuestCase(k)
            /\ EmailOwners(e.before, Normalize(e.info.email), g) = {}
            /\ WithSub(e.pre, e.info.sub) \subseteq {g}
            => /\ e.status = 200
               /\ e.user_id = g
               /\ Len(e.post) = Len(e.pre)
               /\ e.post[g] = Upgraded(e.pre[g], k)
               /\ \A i \in 1..Len(e.pre) : i # g => e.post[i] = e.pre[i]

\* a guest was upgraded by a login whose address needed normalising
C12_Witness ==
    \E k \in GIdx :
        LET e == gcalls[k]
            g == GuestOf(e.before, e.device_id)
        IN  /\ GuestCase(k)
            /\ e.status = 200
            /\ e.user_id = g
            /\ e.pre[g].status = "guest"
            /\ e.post[g].status = "user"
            /\ e.info.email # e.post[g].email
            /\ Len(users) = Len(e.before)

\* login k is a guest upgrade whose email another account owns with a
\* different google_sub
C13_Case(k) ==
    LET e == gcalls[k]
        g == GuestOf(e.before, e.device_id)
    IN  /\ GuestCase(k)
        /\ \E i \in EmailOwners(e.before, Normalize(e.info.email), g) :
              e.before[i].google_sub # e.info.sub

C13_Outcome ==
    \A k \in GIdx :
        C13_Case(k)
            => /\ gcalls[k].status = 409
               /\ gcalls[k].detail = "Email already in use by another account"
               /\ gcalls[k].user_id = 0
               /\ gcalls[k].refresh_token = Bogus
               /\ gcalls[k].pre = gcalls[k].before
               /\ gcalls[k].post = gcalls[k].before

\* the step that answers 409 writes to neither table
C13_Frame ==
    Len(gcalls') = Len(gcalls) + 1 /\ gcalls'[Len(gcalls')].status = 409
        => users' = users /\ rtable' = rtable

\* C13: a guest upgrade whose email is owned by another account with a
\* different google_sub is answered 409 "Email already in use by another
\* account" and changes nothing: the guest stays a guest, no account is
\* created and no token is issued.
C13_EmailConflictRejected == []C13_Outcome /\ [][C13_Frame]_vars

\* such an upgrade was refused and the guest is still a guest
C13_Witness ==
    \E k \in GIdx :
        LET g == GuestOf(gcalls[k].before, gcalls[k].device_id)
        IN  /\ C13_Case(k)
            /\ gcalls[k].status = 409
            /\ users[g] = Guest(gcalls[k].device_id)
            /\ Len(users) = Len(gcalls[k].before)

\* the claims carry a non-empty sub and a non-empty email that is verified
VerifiedClaims(info) ==
    /\ info.valid
    /\ ~Falsy(info.sub)
    /\ ~Falsy(info.email)
    /\ info.email_verified = "True"

\* C14: a login is answered 200 only when its claims carry a non-empty sub
\* and a non-empty verified email; with any other claims (sub or email empty
\* or missing, email_verified false or absent) it is answered 401 and
\* neither creates nor modifies an account or a token.
C14_OnlyVerifiedClaimsBind ==
    \A k \in GIdx :
        ~VerifiedClaims(gcalls[k].info)
            => /\ gcalls[k].status = 401
               /\ gcalls[k].user_id = 0
               /\ gcalls[k].refresh_token = Bogus
               /\ gcalls[k].pre = gcalls[k].before
               /\ gcalls[k].post = gcalls[k].before

\* login k carried verified claims whose sub an account of the table it
\* read already had
C15_Case(k) ==
    /\ verify_google_token(gcalls[k].info) = Ok
    /\ WithSub(gcalls[k].before, gcalls[k].info.sub) # {}

\* C15: a login whose sub an account already has is answered 200 with that
\* account's id whatever device_id it carries; its commit sets last_login_at,
\* sets the email only if the account had none, leaves status "user" and
\* provider "google", adds no row and changes no other row.
C15_ExistingAccountReturned ==
    \A k \in GIdx :
        LET e == gcalls[k]
            u == FirstId(WithSub(e.before, e.info.sub))
        IN  C15_Case(k)
            => /\ e.status = 200
               /\ e.user_id = u
               /\ Len(e.post) = Len(e.pre)
               /\ \A i \in 1..Len(e.pre) : i # u => e.post[i] = e.pre[i]
               /\ e.post[u] =
                      [e.pre[u] EXCEPT !.last_login_at = e.now,
                                       !.email = IF Falsy(e.before[u].email)
                                                 THEN Normalize(e.info.email)
                                                 ELSE e.pre[u].email,
                                       !.status = "user",
                                       !.auth_provider = "google"]
               /\ Falsy(e.pre[u].email) \/ e.post[u].email = e.pre[u].email

\* an account logged in again later, with another address and with the
\* device_id of a guest: the guest is untouched and the address is kept
C15_Witness ==
    \E k \in GIdx :
        LET e == gcalls[k]
            u == FirstId(WithSub(e.before, e.info.sub))
            g == GuestOf(e.before, e.device_id)
        IN  /\ C15_Case(k)
            /\ e.status = 200
            /\ g # 0
            /\ users[g] = Guest(e.device_id)
            /\ e.post[u].last_login_at > e.pre[u].last_login_at
            /\ Normalize(e.info.email) # e.post[u].email
            /\ Len(users) = Len(e.before)

\* no step changes or clears a google_sub that is set, or turns a user
\* back into a guest
C19_Step ==
    \A i \in UIdx :
        /\ users[i].google_sub # NoneStr
              => users'[i].google_sub = users[i].google_sub
        /\ users[i].status = "user" => users'[i].status = "user"

C19_GuestsUnbound ==
    \A i \in UIdx : users[i].status = "guest" => users[i].google_sub = NoneStr

\* C19: once an account's google_sub is non-null no login changes or clears
\* it, an account with status "user" never becomes a guest again, and every
\* guest has a null google_sub.
C19_SubImmutable == [][C19_Step]_vars /\ []C19_GuestsUnbound

(***************************************************************************)
(* Refresh token record claims                                             *)
(***************************************************************************)
\* request c of rflight commits its revocation in this step
Revokes(c) ==
    /\ c.pc = "revoke"
    /\ rflight' = (rflight (-) SetToBag({c})) (+) SetToBag({[c EXCEPT !.pc = "insert"]})

C16_Step ==
    /\ Len(rtable') >= Len(rtable)
    /\ \A r \in TIdx :
          /\ [rtable'[r] EXCEPT !.revoked_at = rtable[r].revoked_at] = rtable[r]
          /\ rtable[r].revoked_at # NoneInt
                => rtable'[r].revoked_at = rtable[r].revoked_at
    /\ \A c \in BagToSet(rflight) :
          Revokes(c) => rtable[c.old_rt].revoked_at = NoneInt

\* C16: no step deletes a refresh-token record or changes any field of it
\* but revoked_at, and revoked_at is written at most once per record: only
\* while it is still null, also when rotations race.
C16_RecordMutatedOnce == [][C16_Step]_vars

\* a record created by a rotation belongs to the user of the record it
\* replaces, and the token a rotation answers with to the user of the token
\* it was given
C17_Inherits ==
    /\ \A r \in TIdx :
          parent[r] # 0 => rtable[r].user_id = rtable[parent[r]].user_id
    /\ \A j \in RIdx :
          rcalls[j].status = 200
              => rtable[RowOf(rcalls[j].refresh_token)].user_id
                   = rtable[RowOf(rcalls[j].token)].user_id

\* the token a login answers with belongs to the account it answers with,
\* which is the account that carries the sub of the claims
C17_LoginOwned ==
    \A k \in GIdx :
        gcalls[k].status = 200
            => /\ rtable[RowOf(gcalls[k].refresh_token)].user_id = gcalls[k].user_id
               /\ gcalls[k].post[gcalls[k].user_id].google_sub = gcalls[k].info.sub

C17_Step == \A r \in TIdx : rtable'[r].user_id = rtable[r].user_id

\* C17: a refresh-token record never moves between accounts: the record a
\* rotation inserts has the user_id of the record it replaces, the record a
\* login inserts has the id of the account the login returned, and no step
\* changes the user_id of a record.
C17_TokenOwnerFixed == [](C17_Inherits /\ C17_LoginOwned) /\ [][C17_Step]_vars

\* two accounts, each with a token that replaced its login token
C17_Witness ==
    \E r, q \in TIdx :
        /\ parent[r] # 0
        /\ parent[q] # 0
        /\ rtable[r].user_id # rtable[q].user_id
        /\ \E k \in GIdx : gcalls[k].refresh_token = parent[r]

(***************************************************************************)
(* Ledger entries without deduplication inputs                             *)
(***************************************************************************)
\* call j supplied neither idempotency_key nor ref_id
Plain(j) ==
    /\ lcalls[j].args.idempotency_key = NoneStr
    /\ lcalls[j].args.ref_id = NoneInt

\* C18: a call with neither idempotency_key nor ref_id always inserts a row
\* and returns the delta it asked for, whatever rows exist: for every account
\* and source the table holds as many rows without key and ref_id as there
\* were such calls.
C18_PlainCallsAlwaysInsert ==
    /\ \A j \in CallIdx :
          Plain(j) => /\ lcalls[j].inserted
                      /\ ~lcalls[j].raised
                      /\ lcalls[j].result = lcalls[j].args.delta
    /\ \A u \in UserIds, src \in Sources :
          Cardinality({i \in RowIdx :
                         /\ ledger[i].user_id = u
                         /\ ledger[i].source = src
                         /\ ledger[i].idempotency_key = NoneStr
                         /\ ledger[i].ref_id = NoneInt})
            = Cardinality({j \in CallIdx :
                             /\ Plain(j)
                             /\ lcalls[j].args.user_id = u
                             /\ lcalls[j].args.source = src})

\* the same call made twice left two equal rows
C18_Witness ==
    \E i, j \in CallIdx :
        /\ After(i, j)
        /\ Plain(i)
        /\ lcalls[i].args = lcalls[j].args
        /\ Len(ledger) = Len(lcalls)
        /\ ledger[i] = ledger[j]

(***************************************************************************)
(* Activity status claim                                                   *)
(***************************************************************************)
\* the rule of the docstring of calc_chicken_status: no activity: normal;
\* 5 days or more since the last activity: weak; otherwise strong with 5 or
\* more activities in the week and normal with fewer
DocumentedStatus(q) ==
    LET last == get_last_activity_at(q.last_checkin, q.last_run)
        count == get_weekly_activity_count(q.checkin_count, q.run_count)
    IN  IF last = NoneInt THEN "normal"
        ELSE IF Date(q.now) - Date(last) >= 5 THEN "weak"
        ELSE IF count >= 5 THEN "strong"
        ELSE "normal"

\* C20: calc_chicken_status returns what its documented v2 rule says: normal
\* without any activity, weak from 5 days after the last activity on, and
\* within 5 days strong from 5 activities in the week on, normal below.
C20_FollowsDocumentedRule ==
    chicken.pc = "done" => chicken.status = DocumentedStatus(chicken.q)
====
